---- MODULE Spec2Model ----
(***************************************************************************)
(* A model of modular-agent-sqlx (src/src/agents.rs): the connection       *)
(* registry (get_pool, normalize_db_url), the statement classifier         *)
(* (script_returns_rows, first_keyword), the script pipeline               *)
(* (SqlxScriptAgent::process, run_sqlx_statement) and the table operators  *)
(* (RowsAgent, RowAgent, SelectAgent).                                     *)
(*                                                                         *)
(* Rust strings are sequences of one-character strings, so that prefixes,  *)
(* trimming, splitting and searching are computed and not assumed.         *)
(***************************************************************************)
EXTENDS FiniteSets, Integers, Sequences, TLC

VARIABLES
    \* ---- the connection registry (get_pool) ----
    DB_MAP,             \* static DB_MAP: specifier -> pool id
    DRIVERS_INSTALLED,  \* static DRIVERS_INSTALLED: how often the drivers were installed
    lock,               \* holder of DB_MAP's Mutex (0: free)
    pools,              \* every pool opened so far: pool id -> the URL it connects to
    pc,                 \* per caller: position inside get_pool
    db,                 \* per caller: the `db` argument
    pool,               \* per caller: the local `pool` it opened (0: none)
    ret,                \* per caller: the value get_pool returned
    calls,              \* number of get_pool calls started
    completed,          \* history: specifier -> pool of its first successful acquire (0: none)
    after,              \* history, per caller: completed[db] when the call started
    \* ---- normalize_db_url as a function ----
    n_pc, n_db, n_url,
    \* ---- script_returns_rows as a function ----
    c_pc, c_script, c_returns,
    \* ---- one SqlxScriptAgent: process, run_sqlx_statement ----
    s_pc,       \* position inside process
    s_script,   \* config `script`
    s_value,    \* the input value
    s_params,   \* the AnyArguments built from it
    s_rows,     \* what the backend answered to fetch_all
    s_sent,     \* how often this invocation sent the statement to the backend
    s_out,      \* what this invocation emitted on the `table` port
    s_ret,      \* what process returned
    s_fail,     \* history: the step of this invocation that failed ("none": none)
    \* ---- one table operator: RowsAgent, RowAgent or SelectAgent ----
    a_pc,       \* "idle", then "done"
    a_op,       \* which agent processed the value
    a_value,    \* the input value
    a_index,    \* RowAgent's config `index`
    a_cols,     \* SelectAgent's config `cols`
    a_names,    \* history: the column names `cols` was written from
    a_out,      \* what the agent emitted on the `array` port
    a_ret       \* what process returned

regVars == <<DB_MAP, DRIVERS_INSTALLED, lock, pools, pc, db, pool, ret, calls, completed, after>>
normVars == <<n_pc, n_db, n_url>>
classVars == <<c_pc, c_script, c_returns>>
scriptVars == <<s_pc, s_script, s_value, s_params, s_rows, s_sent, s_out, s_ret, s_fail>>
algVars == <<a_pc, a_op, a_value, a_index, a_cols, a_names, a_out, a_ret>>
vars == <<regVars, normVars, classVars, scriptVars, algVars>>

(***************************************************************************)
(* Bounds of the model.                                                    *)
(***************************************************************************)
NumCallers == 2     \* concurrent callers of get_pool
MaxCalls == 3       \* get_pool calls in one behaviour
MaxPieces == 3      \* pieces an input string is built from
MaxRows == 2        \* rows of a backend result and of a table
MaxCols == 2        \* columns of a backend result and of a table

(***************************************************************************)
(* Strings.                                                                *)
(***************************************************************************)
\* str::starts_with
starts_with(s, p) == Len(p) <= Len(s) /\ SubSeq(s, 1, Len(p)) = p

\* str::strip_prefix(..).unwrap(), used only where starts_with holds
strip_prefix(s, p) == SubSeq(s, Len(p) + 1, Len(s))

S_mysql == <<"m", "y", "s", "q", "l", ":">>
S_postgres == <<"p", "o", "s", "t", "g", "r", "e", "s", ":">>
S_postgresql == <<"p", "o", "s", "t", "g", "r", "e", "s", "q", "l", ":">>
S_sqlite == <<"s", "q", "l", "i", "t", "e", ":">>
S_slashes == <<"/", "/">>
S_memory == <<":", "m", "e", "m", "o", "r", "y", ":">>
S_mode_rwc == <<"?", "m", "o", "d", "e", "=", "r", "w", "c">>

RECURSIVE Concat(_)
Concat(ss) == IF ss = <<>> THEN <<>> ELSE Head(ss) \o Concat(Tail(ss))

\* all sequences over S of length at most n
SeqsUpTo(S, n) == UNION {[1..k -> S] : k \in 0..n}

(***************************************************************************)
(* normalize_db_url                                                        *)
(***************************************************************************)
\* the postgres: / postgresql: branch
normalize_postgres(d) ==
    LET rest == IF starts_with(d, S_postgres) THEN strip_prefix(d, S_postgres)
                ELSE strip_prefix(d, S_postgresql)
    IN  IF starts_with(rest, S_slashes) THEN d
        ELSE S_postgres \o S_slashes \o rest

normalize_db_url(d) ==
    IF d = <<>> THEN S_sqlite \o S_memory
    ELSE IF starts_with(d, S_mysql) THEN
        LET rest == strip_prefix(d, S_mysql)
        IN  IF starts_with(rest, S_slashes) THEN d
            ELSE S_mysql \o S_slashes \o rest
    ELSE IF starts_with(d, S_postgres) \/ starts_with(d, S_postgresql) THEN
        normalize_postgres(d)
    ELSE IF starts_with(d, S_sqlite) THEN d
    ELSE S_sqlite \o d \o S_mode_rwc

\* the specifiers normalize_db_url is applied to
SpecifierPieces ==
    {S_mysql, S_postgres, S_postgresql, S_sqlite, S_slashes, <<"h">>, <<"/">>, <<":">>}
Specifiers == {Concat(ps) : ps \in SeqsUpTo(SpecifierPieces, MaxPieces)}

(***************************************************************************)
(* The statement classifier: script_returns_rows, first_keyword.           *)
(***************************************************************************)
\* char::is_whitespace, on the characters the scripts are written in
is_whitespace(ch) == ch \in {" ", "\n", "\t"}

\* str::trim_start
RECURSIVE trim_start(_)
trim_start(s) ==
    IF s # <<>> /\ is_whitespace(Head(s)) THEN trim_start(Tail(s)) ELSE s

\* str::find(pat): the position (from 1) of the first match of pat in s, 0 for None
find(s, pat) ==
    LET hits == {i \in 1..(Len(s) - Len(pat) + 1) : SubSeq(s, i, i + Len(pat) - 1) = pat}
    IN  IF hits = {} THEN 0 ELSE CHOOSE i \in hits : \A j \in hits : i <= j

UpperCase == <<"A", "B", "C", "D", "E", "F", "G", "H", "I", "J", "K", "L", "M",
               "N", "O", "P", "Q", "R", "S", "T", "U", "V", "W", "X", "Y", "Z">>
LowerCase == <<"a", "b", "c", "d", "e", "f", "g", "h", "i", "j", "k", "l", "m",
               "n", "o", "p", "q", "r", "s", "t", "u", "v", "w", "x", "y", "z">>

\* str::to_ascii_lowercase
to_ascii_lowercase(w) ==
    [i \in 1..Len(w) |->
        IF \E k \in 1..Len(UpperCase) : UpperCase[k] = w[i]
        THEN LowerCase[CHOOSE k \in 1..Len(UpperCase) : UpperCase[k] = w[i]]
        ELSE w[i]]

\* str::split_whitespace().next(): the first run of non-whitespace, <<>> for None
RECURSIVE word_at_start(_)
word_at_start(s) ==
    IF s = <<>> \/ is_whitespace(Head(s)) THEN <<>>
    ELSE <<Head(s)>> \o word_at_start(Tail(s))

split_whitespace_next(s) == word_at_start(trim_start(s))

None == [some |-> FALSE, v |-> <<>>]
Some(w) == [some |-> TRUE, v |-> w]

S_dashes == <<"-", "-">>
S_open == <<"/", "*">>
S_close == <<"*", "/">>

\* first_keyword: the loop is the recursion
RECURSIVE first_keyword(_)
first_keyword(rest) ==
    LET trimmed == trim_start(rest)
    IN  IF starts_with(trimmed, S_dashes) THEN
            \* rest = trimmed.split_once('\n')?.1
            LET nl == find(trimmed, <<"\n">>)
            IN  IF nl = 0 THEN None
                ELSE first_keyword(SubSeq(trimmed, nl + 1, Len(trimmed)))
        ELSE IF starts_with(trimmed, S_open) THEN
            \* let end = trimmed.find("*/")?; rest = &trimmed[end + 2..]
            LET end == find(trimmed, S_close)
            IN  IF end = 0 THEN None
                ELSE first_keyword(SubSeq(trimmed, end + 2, Len(trimmed)))
        ELSE
            LET word == split_whitespace_next(trimmed)
            IN  IF word = <<>> THEN None ELSE Some(to_ascii_lowercase(word))

K_select == <<"s", "e", "l", "e", "c", "t">>
K_with == <<"w", "i", "t", "h">>
K_pragma == <<"p", "r", "a", "g", "m", "a">>
K_show == <<"s", "h", "o", "w">>
K_describe == <<"d", "e", "s", "c", "r", "i", "b", "e">>
K_explain == <<"e", "x", "p", "l", "a", "i", "n">>
K_insert == <<"i", "n", "s", "e", "r", "t">>

RowKeywords == {K_select, K_with, K_pragma, K_show, K_describe, K_explain}

script_returns_rows(script) ==
    LET keyword == first_keyword(script)
    IN  keyword.some /\ keyword.v \in RowKeywords

\* the scripts the classifier is applied to
ScriptPieces ==
    {<<" ">>, <<"\n">>, S_dashes, <<"-">>, S_open, S_close, <<"/">>, <<"*">>, <<"x">>,
     K_select, <<"S", "e", "L", "E", "c", "T">>, K_with, <<"P", "R", "A", "G", "M", "A">>,
     K_show, <<"D", "e", "s", "c", "r", "i", "b", "e">>, K_explain, K_insert}
Scripts == {Concat(ps) : ps \in SeqsUpTo(ScriptPieces, MaxPieces)}

(***************************************************************************)
(* The connection registry: get_pool, one action per step between two      *)
(* points where another caller can run.                                    *)
(***************************************************************************)
Callers == 1..NumCallers

\* the `db` values the callers pass: two specifiers of one URL
Dbs == {S_mysql \o <<"h">>,
        S_mysql \o S_slashes \o <<"h">>}

NoRet == [kind |-> "None", pool |-> 0]
OkPool(p) == [kind |-> "Ok", pool |-> p]
IoError == [kind |-> "IoError", pool |-> 0]

\* BTreeMap::get(db).cloned(): 0 stands for None
map_get_none(m, k) == 0
map_get(m, k) == IF k \in DOMAIN m THEN m[k] ELSE 0

\* BTreeMap::insert: a plain insert replaces the entry
map_insert(m, k, v) == [x \in DOMAIN m \cup {k} |-> IF x = k THEN v ELSE m[x]]
\* map.entry(db).or_insert_with(|| pool.clone())
or_insert_with(m, k, v) ==
    IF k \in DOMAIN m THEN m
    ELSE [x \in DOMAIN m \cup {k} |-> IF x = k THEN v ELSE m[x]]

RegInit ==
    /\ DB_MAP = <<>>
    /\ DRIVERS_INSTALLED = 0
    /\ lock = 0
    /\ pools = <<>>
    /\ pc = [c \in Callers |-> "idle"]
    /\ db = [c \in Callers |-> <<>>]
    /\ pool = [c \in Callers |-> 0]
    /\ ret = [c \in Callers |-> NoRet]
    /\ calls = 0
    /\ completed = [d \in Dbs |-> 0]
    /\ after = [c \in Callers |-> 0]

\* get_pool is entered: DRIVERS_INSTALLED.get_or_init, DB_MAP.get_or_init
Call(c) ==
    /\ pc[c] = "idle"
    /\ calls < MaxCalls
    /\ \E d \in Dbs :
        /\ db' = [db EXCEPT ![c] = d]
        /\ after' = [after EXCEPT ![c] = completed[d]]
    /\ DRIVERS_INSTALLED' = IF DRIVERS_INSTALLED = 0 THEN 1 ELSE DRIVERS_INSTALLED
    /\ calls' = calls + 1
    /\ pc' = [pc EXCEPT ![c] = "lookup_lock"]
    /\ pool' = [pool EXCEPT ![c] = 0]
    /\ ret' = [ret EXCEPT ![c] = NoRet]
    /\ UNCHANGED <<DB_MAP, lock, pools, completed>>

\* db_map.lock().unwrap() of the lookup
LookupLock(c) ==
    /\ pc[c] = "lookup_lock"
    /\ lock = 0
    /\ lock' = c
    /\ pc' = [pc EXCEPT ![c] = "lookup"]
    /\ UNCHANGED <<DB_MAP, DRIVERS_INSTALLED, pools, db, pool, ret, calls, completed, after>>

\* .get(db).cloned() is Some(pool): return Ok(pool); the guard is dropped
LookupHit(c) ==
    /\ pc[c] = "lookup"
    /\ lock = c
    /\ map_get(DB_MAP, db[c]) # 0
    /\ ret' = [ret EXCEPT ![c] = OkPool(map_get(DB_MAP, db[c]))]
    /\ completed' = [completed EXCEPT ![db[c]] =
                        IF @ = 0 THEN map_get(DB_MAP, db[c]) ELSE @]
    /\ lock' = 0
    /\ pc' = [pc EXCEPT ![c] = "done"]
    /\ UNCHANGED <<DB_MAP, DRIVERS_INSTALLED, pools, db, pool, calls, after>>

\* the lookup misses and the caller goes on to connect still holding the guard
LookupMissKeepsLock(c) ==
    /\ pc[c] = "lookup"
    /\ lock = c
    /\ map_get(DB_MAP, db[c]) = 0
    /\ pc' = [pc EXCEPT ![c] = "connect"]
    /\ UNCHANGED <<DB_MAP, DRIVERS_INSTALLED, lock, pools, db, pool, ret, calls,
                   completed, after>>

\* .get(db).cloned() is None: the guard is dropped at the end of the `if let`
LookupMiss(c) ==
    /\ pc[c] = "lookup"
    /\ lock = c
    /\ map_get(DB_MAP, db[c]) = 0
    /\ lock' = 0
    /\ pc' = [pc EXCEPT ![c] = "connect"]
    /\ UNCHANGED <<DB_MAP, DRIVERS_INSTALLED, pools, db, pool, ret, calls, completed, after>>

\* AnyPool::connect(&normalize_db_url(db)).await is Ok: a new pool
\* (a caller that took the lock itself never blocks on it)
ConnectOk(c) ==
    /\ pc[c] = "connect"
    /\ pools' = Append(pools, normalize_db_url(db[c]))
    /\ pool' = [pool EXCEPT ![c] = Len(pools) + 1]
    /\ pc' = [pc EXCEPT ![c] = "insert_lock"]
    /\ UNCHANGED <<DB_MAP, DRIVERS_INSTALLED, lock, db, ret, calls, completed, after>>

\* AnyPool::connect(..).await is Err: map_err to IoError, `?` returns it
ConnectErr(c) ==
    /\ pc[c] = "connect"
    /\ ret' = [ret EXCEPT ![c] = IoError]
    /\ pc' = [pc EXCEPT ![c] = "done"]
    /\ UNCHANGED <<DB_MAP, DRIVERS_INSTALLED, lock, pools, db, pool, calls, completed, after>>

\* db_map.lock().unwrap() of the insert
InsertLock(c) ==
    /\ pc[c] = "insert_lock"
    /\ lock = 0
    /\ lock' = c
    /\ pc' = [pc EXCEPT ![c] = "insert"]
    /\ UNCHANGED <<DB_MAP, DRIVERS_INSTALLED, pools, db, pool, ret, calls, completed, after>>

\* entry(db).or_insert_with(|| pool.clone()); Ok(entry.clone()); the guard is dropped
Insert(c) ==
    /\ pc[c] = "insert"
    /\ lock = c
    /\ DB_MAP' = or_insert_with(DB_MAP, db[c], pool[c])
    /\ ret' = [ret EXCEPT ![c] = OkPool(DB_MAP'[db[c]])]
    /\ completed' = [completed EXCEPT ![db[c]] = IF @ = 0 THEN DB_MAP'[db[c]] ELSE @]
    /\ lock' = 0
    /\ pc' = [pc EXCEPT ![c] = "done"]
    /\ UNCHANGED <<DRIVERS_INSTALLED, pools, db, pool, calls, after>>

\* the caller has its result and may call again
Return(c) ==
    /\ pc[c] = "done"
    /\ pc' = [pc EXCEPT ![c] = "idle"]
    /\ db' = [db EXCEPT ![c] = <<>>]
    /\ pool' = [pool EXCEPT ![c] = 0]
    /\ ret' = [ret EXCEPT ![c] = NoRet]
    /\ after' = [after EXCEPT ![c] = 0]
    /\ UNCHANGED <<DB_MAP, DRIVERS_INSTALLED, lock, pools, calls, completed>>

(***************************************************************************)
(* AgentValue, as far as the pipeline and the table operators use it.      *)
(***************************************************************************)
Unit == [t |-> "Unit"]
Boolean(b) == [t |-> "Boolean", b |-> b]
Integer(i) == [t |-> "Integer", i |-> i]
String(s) == [t |-> "String", s |-> s]
Array(a) == [t |-> "Array", a |-> a]
Object(o) == [t |-> "Object", o |-> o]

\* AgentValue::as_array
is_array(v) == v.t = "Array"

\* AgentValue::get_array(key): Some(the array) when the value is an object whose
\* field `key` is an array
has_array(v, key) == v.t = "Object" /\ key \in DOMAIN v.o /\ v.o[key].t = "Array"
get_array(v, key) == v.o[key].a

Ok == [kind |-> "Ok", msg |-> "", arg |-> <<>>]
IoErr(msg) == [kind |-> "IoError", msg |-> msg, arg |-> <<>>]
InvalidValue(msg, arg) == [kind |-> "InvalidValue", msg |-> msg, arg |-> arg]
NotReturned == [kind |-> "None", msg |-> "", arg |-> <<>>]

(***************************************************************************)
(* build_sqlx_params, add_agent_value_param                                *)
(***************************************************************************)
\* the parameter add_agent_value_param binds for a value
param_of(v) ==
    CASE v.t = "Unit" -> "null_i64"
      [] v.t = "Boolean" -> "bool"
      [] v.t = "Integer" -> "i64"
      [] v.t = "String" -> "string"
      [] OTHER -> "json"

\* build_sqlx_params: one parameter per element of an array, else one parameter;
\* failAt is the number of the args.add call the driver rejects (0: none)
build_sqlx_params(value, failAt) ==
    LET items == IF is_array(value) THEN value.a ELSE <<value>>
    IN  IF failAt \in 1..Len(items)
        THEN [ok |-> FALSE, args |-> <<>>]
        ELSE [ok |-> TRUE, args |-> [i \in 1..Len(items) |-> param_of(items[i])]]

\* the input values of the script agent
InputValues ==
    {Unit, Integer(1), String(<<"x">>),
     Array(<<>>),
     Array(<<Integer(1), String(<<"x">>), Boolean(TRUE)>>),
     Array(<<Array(<<Integer(1)>>), Unit>>)}

(***************************************************************************)
(* The backend's rows (AnyRow) and the cell decoder.                       *)
(***************************************************************************)
T_integer == <<"I", "N", "T", "E", "G", "E", "R">>
T_text == <<"t", "e", "x", "t">>
T_json == <<"J", "S", "O", "N">>

\* the decoder's type names of the two categories the model's cells are of (the
\* boolean, float and blob names decode the same way, each to its own variant)
IntegerTypes ==
    {T_integer, <<"I", "N", "T">>, <<"I", "N", "T", "4">>, <<"I", "N", "T", "8">>,
     <<"B", "I", "G", "I", "N", "T">>, <<"S", "M", "A", "L", "L", "I", "N", "T">>,
     <<"T", "I", "N", "Y", "I", "N", "T">>, <<"M", "E", "D", "I", "U", "M", "I", "N", "T">>}
TextTypes ==
    {<<"T", "E", "X", "T">>, <<"V", "A", "R", "C", "H", "A", "R">>, <<"C", "H", "A", "R">>,
     <<"B", "P", "C", "H", "A", "R">>, <<"N", "A", "M", "E">>,
     <<"C", "I", "T", "E", "X", "T">>, <<"L", "O", "N", "G", "T", "E", "X", "T">>,
     <<"M", "E", "D", "I", "U", "M", "T", "E", "X", "T">>,
     <<"T", "I", "N", "Y", "T", "E", "X", "T">>}

\* str::to_uppercase, on ASCII
to_uppercase(w) ==
    [i \in 1..Len(w) |->
        IF \E k \in 1..Len(LowerCase) : LowerCase[k] = w[i]
        THEN UpperCase[CHOOSE k \in 1..Len(LowerCase) : LowerCase[k] = w[i]]
        ELSE w[i]]

\* a raw cell: whether try_get_raw reads it, whether it is NULL, its declared type
\* and what the typed decode of that type's category gives (Unit: it fails)
RawCell(readable, null, type, dec) ==
    [readable |-> readable, is_null |-> null, type_name |-> type, decoded |-> dec]
RawInt == RawCell(TRUE, FALSE, T_integer, Integer(7))
RawNull == RawCell(TRUE, TRUE, T_integer, Unit)
RawText == RawCell(TRUE, FALSE, T_text, String(<<"x">>))
RawJson == RawCell(TRUE, FALSE, T_json, Unit)
RawUnreadable == RawCell(FALSE, FALSE, T_integer, Unit)

\* sqlx_value_ref_to_agent_value: NULL is Unit; the type name uppercased picks the
\* decode; a decode that fails gives the type name as a string
sqlx_value_ref_to_agent_value(value) ==
    IF value.is_null THEN Unit
    ELSE LET upper == to_uppercase(value.type_name)
             decodes == /\ value.decoded # Unit
                        /\ \/ upper \in IntegerTypes /\ value.decoded.t = "Integer"
                           \/ upper \in TextTypes /\ value.decoded.t = "String"
                           \/ upper \notin IntegerTypes \cup TextTypes
                              /\ value.decoded.t = "String"
         IN  IF decodes THEN value.decoded ELSE String(value.type_name)

\* a row decoder that leaves the NULL cells out
row_without_nulls(row) ==
    IF \E i \in 1..Len(row.columns) : ~row.values[i].readable
    THEN [ok |-> FALSE, value |-> Unit]
    ELSE [ok |-> TRUE,
          value |-> Array(SelectSeq([i \in 1..Len(row.columns) |->
                                        sqlx_value_ref_to_agent_value(row.values[i])],
                                    LAMBDA v : v # Unit))]

\* sqlx_row_to_agent_value: for col_idx in 0..row.len(), try_get_raw(col_idx) mapped
\* through the decoder, the first Err returned as IoError
sqlx_row_to_agent_value(row) ==
    IF \E i \in 1..Len(row.columns) : ~row.values[i].readable
    THEN [ok |-> FALSE, value |-> Unit]
    ELSE [ok |-> TRUE,
          value |-> Array([i \in 1..Len(row.columns) |->
                              sqlx_value_ref_to_agent_value(row.values[i])])]

\* the rows after the first unreadable one are never decoded: what was decoded
\* before it is returned as the table
rows_to_table_partial(rows) ==
    LET headers == IF rows # <<>> THEN [i \in 1..Len(rows[1].columns) |->
                                           String(rows[1].columns[i])]
                   ELSE <<>>
        good == {n \in 0..Len(rows) : \A r \in 1..n : sqlx_row_to_agent_value(rows[r]).ok}
        n == CHOOSE k \in good : \A m \in good : m <= k
    IN  [ok |-> TRUE,
         value |-> Object([headers |-> Array(headers),
                           rows |-> Array([r \in 1..n |->
                                              sqlx_row_to_agent_value(rows[r]).value])])]

\* run_sqlx_statement after fetch_all answered Ok(rows): headers from the first
\* row's columns, every row decoded, the first Err returned
rows_to_table(rows) ==
    LET headers == IF rows # <<>> THEN [i \in 1..Len(rows[1].columns) |->
                                           String(rows[1].columns[i])]
                   ELSE <<>>
    IN  IF \E r \in 1..Len(rows) : ~sqlx_row_to_agent_value(rows[r]).ok
        THEN [ok |-> FALSE, value |-> Unit]
        ELSE [ok |-> TRUE,
              value |-> Object([headers |-> Array(headers),
                                rows |-> Array([r \in 1..Len(rows) |->
                                                   sqlx_row_to_agent_value(rows[r]).value])])]

S_rows_affected == <<"r", "o", "w", "s", "_", "a", "f", "f", "e", "c", "t", "e", "d">>

\* rows_affected_to_table; the counts of the model are far below i64::MAX, where
\* i64::try_from is the identity
rows_affected_to_table(rows_affected) ==
    Object([headers |-> Array(<<String(S_rows_affected)>>),
            rows |-> Array(<<Array(<<Integer(rows_affected)>>)>>)])

\* the column lists of a result set, by width
ColumnNames == {<<<<"a">>, <<"b">>, <<"c">>, <<"d">>>>, <<<<"b">>, <<"a">>, <<"a">>, <<"b">>>>}
\* the rows of a result set, by width: the cells of one row follow a pattern
CellPatterns ==
    {<<RawInt, RawInt, RawInt, RawInt>>,
     <<RawNull, RawText, RawJson, RawNull>>,
     <<RawInt, RawUnreadable, RawNull, RawUnreadable>>}
\* a result set: every row has the statement's columns
ResultSets ==
    UNION {UNION {{[r \in 1..n |-> [columns |-> SubSeq(names, 1, w),
                                    values |-> SubSeq(cells[r], 1, w)]]
                        : cells \in [1..n -> CellPatterns]}
                    : names \in ColumnNames}
             : <<w, n>> \in (0..MaxCols) \X (0..MaxRows)}

\* the scripts of the script agent: row-producing, mutating, commented
AgentScripts ==
    {<<>>, K_select, K_insert, S_dashes \o K_select,
     S_open \o S_close \o <<" ">> \o K_with}

(***************************************************************************)
(* SqlxScriptAgent::process, one action per step between two awaits.  The  *)
(* agent is caller 1 of get_pool.                                          *)
(***************************************************************************)
ScriptInit ==
    /\ s_pc = "idle"
    /\ s_script = <<>>
    /\ s_value = Unit
    /\ s_params = <<>>
    /\ s_rows = <<>>
    /\ s_sent = 0
    /\ s_out = <<>>
    /\ s_ret = NotReturned
    /\ s_fail = "none"

\* script.is_empty(): return Ok(()) before anything else happens
ProcessEmpty ==
    /\ s_pc = "idle"
    /\ s_pc' = "done"
    /\ s_script' = <<>>
    /\ \E v \in InputValues : s_value' = v
    /\ s_ret' = Ok
    /\ UNCHANGED <<s_params, s_rows, s_sent, s_out, s_fail>>
    /\ UNCHANGED regVars

\* the script is not empty: get_pool is called
ProcessStart ==
    /\ s_pc = "idle"
    /\ s_pc' = "get_pool"
    /\ \E sc \in AgentScripts \ {<<>>} : s_script' = sc
    /\ \E v \in InputValues : s_value' = v
    /\ Call(1)
    /\ UNCHANGED <<s_params, s_rows, s_sent, s_out, s_ret, s_fail>>

\* get_pool(..).await? is Err
PoolErr ==
    /\ s_pc = "get_pool"
    /\ pc[1] = "done" /\ ret[1].kind = "IoError"
    /\ s_ret' = IoErr("SQLx Error creating pool")
    /\ s_fail' = "pool"
    /\ s_pc' = "done"
    /\ Return(1)
    /\ UNCHANGED <<s_script, s_value, s_params, s_rows, s_sent, s_out>>

\* get_pool is Ok, build_sqlx_params(&value)? is Err
BindErr ==
    /\ s_pc = "get_pool"
    /\ pc[1] = "done" /\ ret[1].kind = "Ok"
    /\ \E failAt \in 1..2 :
        /\ ~build_sqlx_params(s_value, failAt).ok
    /\ s_ret' = IoErr("SQLx Error binding param")
    /\ s_fail' = "bind"
    /\ s_pc' = "done"
    /\ Return(1)
    /\ UNCHANGED <<s_script, s_value, s_params, s_rows, s_sent, s_out>>

\* get_pool is Ok, build_sqlx_params is Ok: run_sqlx_statement is entered
BindOk ==
    /\ s_pc = "get_pool"
    /\ pc[1] = "done" /\ ret[1].kind = "Ok"
    /\ s_params' = build_sqlx_params(s_value, 0).args
    /\ s_pc' = "run"
    /\ Return(1)
    /\ UNCHANGED <<s_script, s_value, s_rows, s_sent, s_out, s_ret, s_fail>>

\* script_returns_rows: query_with(..).fetch_all(pool).await is Err
FetchErr ==
    /\ s_pc = "run"
    /\ script_returns_rows(s_script)
    /\ s_sent' = s_sent + 1
    /\ s_ret' = IoErr("SQLx Error")
    /\ s_fail' = "fetch"
    /\ s_pc' = "done"
    /\ UNCHANGED <<s_script, s_value, s_params, s_rows, s_out>>
    /\ UNCHANGED regVars

\* script_returns_rows: fetch_all is Ok(rows); the table is built and, unless a
\* cell cannot be read, emitted on the `table` port
FetchOk ==
    /\ s_pc = "run"
    /\ script_returns_rows(s_script)
    /\ s_sent' = s_sent + 1
    /\ \E rows \in ResultSets :
        /\ s_rows' = rows
        /\ s_fail' = IF \E r \in 1..Len(rows) : \E i \in 1..Len(rows[r].values) :
                            ~rows[r].values[i].readable
                     THEN "raw" ELSE "none"
        /\ LET built == rows_to_table(rows)
           IN  IF built.ok
               THEN s_out' = Append(s_out, built.value) /\ s_ret' = Ok
               ELSE s_out' = s_out /\ s_ret' = IoErr("SQLx Error")
    /\ s_pc' = "done"
    /\ UNCHANGED <<s_script, s_value, s_params>>
    /\ UNCHANGED regVars

\* not script_returns_rows: query_with(..).execute(pool).await is Err
ExecuteErr ==
    /\ s_pc = "run"
    /\ ~script_returns_rows(s_script)
    /\ s_sent' = s_sent + 1
    /\ s_ret' = IoErr("SQLx Error")
    /\ s_fail' = "execute"
    /\ s_pc' = "done"
    /\ UNCHANGED <<s_script, s_value, s_params, s_rows, s_out>>
    /\ UNCHANGED regVars

\* not script_returns_rows: execute is Ok(result); the pseudo-table is emitted
ExecuteOk ==
    /\ s_pc = "run"
    /\ ~script_returns_rows(s_script)
    /\ s_sent' = s_sent + 1
    /\ \E rows_affected \in 0..MaxRows :
        s_out' = Append(s_out, rows_affected_to_table(rows_affected))
    /\ s_ret' = Ok
    /\ s_pc' = "done"
    /\ UNCHANGED <<s_script, s_value, s_params, s_rows, s_fail>>
    /\ UNCHANGED regVars

\* process has returned; the agent takes its next input
ProcessReturn ==
    /\ s_pc = "done"
    /\ s_pc' = "idle"
    /\ s_script' = <<>>
    /\ s_value' = Unit
    /\ s_params' = <<>>
    /\ s_rows' = <<>>
    /\ s_sent' = 0
    /\ s_out' = <<>>
    /\ s_ret' = NotReturned
    /\ s_fail' = "none"
    /\ UNCHANGED regVars

(***************************************************************************)
(* The table operators: RowsAgent, RowAgent, SelectAgent.                  *)
(***************************************************************************)
\* str::trim
RECURSIVE trim_end(_)
trim_end(s) ==
    IF s # <<>> /\ is_whitespace(s[Len(s)]) THEN trim_end(SubSeq(s, 1, Len(s) - 1)) ELSE s
trim(s) == trim_end(trim_start(s))

\* a split that gives no part for an empty text and drops the empty parts
RECURSIVE split_nonempty(_, _)
split_nonempty(s, sep) ==
    LET i == find(s, <<sep>>)
    IN  IF s = <<>> THEN <<>>
        ELSE IF i = 0 THEN <<s>>
        ELSE (IF i = 1 THEN <<>> ELSE <<SubSeq(s, 1, i - 1)>>)
                \o split_nonempty(SubSeq(s, i + 1, Len(s)), sep)

\* str::split(','), collected
RECURSIVE split(_, _)
split(s, sep) ==
    LET i == find(s, <<sep>>)
    IN  IF i = 0 THEN <<s>>
        ELSE <<SubSeq(s, 1, i - 1)>> \o split(SubSeq(s, i + 1, Len(s)), sep)

\* the position of the last header equal to col
position_last(headers, col) ==
    LET hits == {i \in 1..Len(headers) : headers[i].t = "String" /\ headers[i].s = col}
    IN  IF hits = {} THEN 0 ELSE CHOOSE i \in hits : \A j \in hits : j <= i

\* headers.iter().position(|h| h.as_str().map_or(false, |hs| hs == col)), from 1;
\* 0 for None
position(headers, col) ==
    LET hits == {i \in 1..Len(headers) : headers[i].t = "String" /\ headers[i].s = col}
    IN  IF hits = {} THEN 0 ELSE CHOOSE i \in hits : \A j \in hits : i <= j

Emits(v) == [ret |-> Ok, out |-> <<v>>]
Fails(e) == [ret |-> e, out |-> <<>>]

\* a RowsAgent that takes a missing `rows` for no rows
RowsAgent_process_lenient(value) ==
    IF ~has_array(value, "rows") THEN Emits(Array(<<>>))
    ELSE Emits(Array(get_array(value, "rows")))

\* RowsAgent::process
RowsAgent_process(value) ==
    IF ~has_array(value, "rows") THEN Fails(InvalidValue("Missing 'rows' field", <<>>))
    ELSE Emits(Array(get_array(value, "rows")))

\* RowAgent::process; index is the config value, not negative
RowAgent_process(value, index) ==
    IF ~has_array(value, "rows") THEN Fails(InvalidValue("Missing 'rows' field", <<>>))
    ELSE IF index >= Len(get_array(value, "rows"))
    THEN Fails(InvalidValue("Row index out of bounds", <<index>>))
    ELSE Emits(get_array(value, "rows")[index + 1])

\* SelectAgent::process
SelectAgent_process(value, config_cols) ==
    LET parts == split(config_cols, ",")
        cols == [j \in 1..Len(parts) |-> trim(parts[j])]
    IN  IF ~has_array(value, "headers")
        THEN Fails(InvalidValue("Missing 'headers' field", <<>>))
        ELSE
        LET headers == get_array(value, "headers")
            col_indices == [j \in 1..Len(cols) |-> position(headers, cols[j])]
            missing == {j \in 1..Len(cols) : col_indices[j] = 0}
        IN  IF missing # {}
            THEN Fails(InvalidValue("Column not found",
                                    cols[CHOOSE j \in missing : \A k \in missing : j <= k]))
            ELSE IF ~has_array(value, "rows")
            THEN Fails(InvalidValue("Missing 'rows' field", <<>>))
            ELSE
            LET rows == get_array(value, "rows")
                arr == [r \in 1..Len(rows) |->
                           Array([j \in 1..Len(cols) |->
                                     IF col_indices[j] <= Len(rows[r].a)
                                     THEN rows[r].a[col_indices[j]]
                                     ELSE Unit])]
            IN  IF \E r \in 1..Len(rows) : ~is_array(rows[r])
                THEN Fails(InvalidValue("Row is not an array", <<>>))
                ELSE IF Len(arr) = 1 THEN Emits(arr[1])
                ELSE Emits(Array(arr))

\* the header lists of the input tables
HeaderNames == {<<"a">>, <<"b">>}
HeaderLists ==
    {[i \in 1..Len(h) |-> String(h[i])] : h \in SeqsUpTo(HeaderNames, MaxCols)}
        \cup {<<Unit, String(<<"a">>)>>}
\* row r of an input table: an array of w cells, each cell its own value
TableRow(r, w) == Array([c \in 1..w |-> Integer(10 * r + c)])
\* the rows of the input tables: full rows, rows one cell short, rows not arrays
RowLists ==
    UNION {{[r \in 1..n |-> CASE shape[r] = "full" -> TableRow(r, MaxCols)
                              [] shape[r] = "short" -> TableRow(r, MaxCols - 1)
                              [] OTHER -> Unit]
                : shape \in [1..n -> {"full", "short", "none"}]}
             : n \in 0..MaxRows}
\* a field of an input value: absent (Unit here), not an array, or an array
TableValue(headers, rows) ==
    Object([k \in {x \in {"headers", "rows"} :
                    (x = "headers" /\ headers # Unit) \/ (x = "rows" /\ rows # Unit)}
            |-> IF k = "headers" THEN headers ELSE rows])
InputTables ==
    {TableValue(h, r) :
        h \in {Unit, String(<<"a">>)} \cup {Array(x) : x \in HeaderLists},
        r \in {Unit, String(<<"a">>)} \cup {Array(x) : x \in RowLists}}
    \cup {Unit}

\* the items `cols` is written from: the text between two commas, and the name in it
ColsItems ==
    {[raw |-> <<"a">>, name |-> <<"a">>],
     [raw |-> <<"b">>, name |-> <<"b">>],
     [raw |-> <<" ", "b", "\t">>, name |-> <<"b">>],
     [raw |-> <<"c">>, name |-> <<"c">>],
     [raw |-> <<" ">>, name |-> <<>>]}
ColsRequests == UNION {[1..n -> ColsItems] : n \in 1..MaxCols}

\* the items' texts with a comma between two of them
RECURSIVE join_raw(_)
join_raw(items) ==
    IF Len(items) = 1 THEN items[1].raw
    ELSE items[1].raw \o <<",">> \o join_raw(Tail(items))

AlgInit ==
    /\ a_pc = "idle"
    /\ a_op = "none"
    /\ a_value = Unit
    /\ a_index = 0
    /\ a_cols = <<>>
    /\ a_names = <<>>
    /\ a_out = <<>>
    /\ a_ret = NotReturned

RowsProcess ==
    /\ a_pc = "idle"
    /\ a_pc' = "done"
    /\ a_op' = "Rows"
    /\ \E value \in InputTables :
        /\ a_value' = value
        /\ a_ret' = RowsAgent_process(value).ret
        /\ a_out' = RowsAgent_process(value).out
    /\ UNCHANGED <<a_index, a_cols, a_names>>

RowProcess ==
    /\ a_pc = "idle"
    /\ a_pc' = "done"
    /\ a_op' = "Row"
    /\ \E value \in InputTables, index \in 0..(MaxRows + 1) :
        /\ a_value' = value
        /\ a_index' = index
        /\ a_ret' = RowAgent_process(value, index).ret
        /\ a_out' = RowAgent_process(value, index).out
    /\ UNCHANGED <<a_cols, a_names>>

SelectProcess ==
    /\ a_pc = "idle"
    /\ a_pc' = "done"
    /\ a_op' = "Select"
    /\ \E value \in InputTables, items \in ColsRequests \cup {<<>>} :
        LET config_cols == IF items = <<>> THEN <<>> ELSE join_raw(items)
        IN  /\ a_value' = value
            /\ a_cols' = config_cols
            /\ a_names' = IF items = <<>> THEN <<<<>>>>
                          ELSE [j \in 1..Len(items) |-> items[j].name]
            /\ a_ret' = SelectAgent_process(value, config_cols).ret
            /\ a_out' = SelectAgent_process(value, config_cols).out
    /\ UNCHANGED a_index

(***************************************************************************)
(* normalize_db_url and script_returns_rows applied to an input.           *)
(***************************************************************************)
NormInit == n_pc = "idle" /\ n_db = <<>> /\ n_url = <<>>

Normalize ==
    /\ n_pc = "idle"
    /\ n_pc' = "done"
    /\ \E d \in Specifiers :
        /\ n_db' = d
        /\ n_url' = normalize_db_url(d)

ClassInit == c_pc = "idle" /\ c_script = <<>> /\ c_returns = FALSE

Classify ==
    /\ c_pc = "idle"
    /\ c_pc' = "done"
    /\ \E s \in Scripts :
        /\ c_script' = s
        /\ c_returns' = script_returns_rows(s)

(***************************************************************************)
(* Specifications.                                                         *)
(***************************************************************************)
Init == RegInit /\ NormInit /\ ClassInit /\ ScriptInit /\ AlgInit

\* one step of caller c inside get_pool, the connection attempt's outcome left out
LockStep(c) ==
    /\ \/ LookupLock(c)
       \/ LookupHit(c)
       \/ LookupMiss(c)
       \/ InsertLock(c)
       \/ Insert(c)
    /\ UNCHANGED <<normVars, classVars, scriptVars, algVars>>

Next ==
    \E c \in Callers :
        \/ Call(c) /\ UNCHANGED <<normVars, classVars, scriptVars, algVars>>
        \/ LookupLock(c) /\ UNCHANGED <<normVars, classVars, scriptVars, algVars>>
        \/ LookupHit(c) /\ UNCHANGED <<normVars, classVars, scriptVars, algVars>>
        \/ LookupMiss(c) /\ UNCHANGED <<normVars, classVars, scriptVars, algVars>>
        \/ ConnectOk(c) /\ UNCHANGED <<normVars, classVars, scriptVars, algVars>>
        \/ ConnectErr(c) /\ UNCHANGED <<normVars, classVars, scriptVars, algVars>>
        \/ InsertLock(c) /\ UNCHANGED <<normVars, classVars, scriptVars, algVars>>
        \/ Insert(c) /\ UNCHANGED <<normVars, classVars, scriptVars, algVars>>
        \/ Return(c) /\ UNCHANGED <<normVars, classVars, scriptVars, algVars>>

\* the registry under concurrent callers
Spec == Init /\ [][Next]_vars

\* The same, with every step a caller takes by itself eventually taken: a
\* std::sync::Mutex is handed to a waiting thread once it is free, and the code
\* between lock() and the guard's drop does not wait.  The connection attempt is
\* the backend's: nothing says when, or whether, it ends.
FairSpec == Spec /\ \A c \in Callers : WF_vars(LockStep(c))

NormNext == Normalize /\ UNCHANGED <<regVars, classVars, scriptVars, algVars>>

\* normalize_db_url on every specifier of Specifiers
SpecNormalize == Init /\ [][NormNext]_vars

ClassNext == Classify /\ UNCHANGED <<regVars, normVars, scriptVars, algVars>>

\* script_returns_rows on every script of Scripts
SpecClassify == Init /\ [][ClassNext]_vars

\* a step of get_pool taken for the agent
PoolStep ==
    \/ s_pc = "get_pool" /\ LookupLock(1) /\ UNCHANGED scriptVars
    \/ s_pc = "get_pool" /\ LookupHit(1) /\ UNCHANGED scriptVars
    \/ s_pc = "get_pool" /\ LookupMiss(1) /\ UNCHANGED scriptVars
    \/ s_pc = "get_pool" /\ ConnectOk(1) /\ UNCHANGED scriptVars
    \/ s_pc = "get_pool" /\ ConnectErr(1) /\ UNCHANGED scriptVars
    \/ s_pc = "get_pool" /\ InsertLock(1) /\ UNCHANGED scriptVars
    \/ s_pc = "get_pool" /\ Insert(1) /\ UNCHANGED scriptVars

ScriptNext ==
    \/ ProcessEmpty /\ UNCHANGED <<normVars, classVars, algVars>>
    \/ ProcessStart /\ UNCHANGED <<normVars, classVars, algVars>>
    \/ PoolStep /\ UNCHANGED <<normVars, classVars, algVars>>
    \/ PoolErr /\ UNCHANGED <<normVars, classVars, algVars>>
    \/ BindErr /\ UNCHANGED <<normVars, classVars, algVars>>
    \/ BindOk /\ UNCHANGED <<normVars, classVars, algVars>>
    \/ FetchErr /\ UNCHANGED <<normVars, classVars, algVars>>
    \/ FetchOk /\ UNCHANGED <<normVars, classVars, algVars>>
    \/ ExecuteErr /\ UNCHANGED <<normVars, classVars, algVars>>
    \/ ExecuteOk /\ UNCHANGED <<normVars, classVars, algVars>>
    \/ ProcessReturn /\ UNCHANGED <<normVars, classVars, algVars>>

\* one script agent, input after input
SpecScript == Init /\ [][ScriptNext]_vars

AlgNext ==
    \/ RowsProcess /\ UNCHANGED <<regVars, normVars, classVars, scriptVars>>
    \/ RowProcess /\ UNCHANGED <<regVars, normVars, classVars, scriptVars>>
    \/ SelectProcess /\ UNCHANGED <<regVars, normVars, classVars, scriptVars>>

\* one table operator applied to one value
SpecAlgebra == Init /\ [][AlgNext]_vars

\* the `cols` of the SelectAgent behind the script agent: the empty text, one
\* name, two names
PipelineCols ==
    {<<>>} \cup {<<i>> : i \in ColsItems} \cup {<<i, j>> : i, j \in ColsItems}

\* the table the script agent emitted reaches a SelectAgent wired to its port
SelectEmitted ==
    /\ a_pc = "idle"
    /\ s_pc = "done" /\ s_out # <<>>
    /\ a_pc' = "done"
    /\ a_op' = "Select"
    /\ a_value' = s_out[1]
    /\ \E items \in PipelineCols :
        LET config_cols == IF items = <<>> THEN <<>> ELSE join_raw(items)
        IN  /\ a_cols' = config_cols
            /\ a_names' = IF items = <<>> THEN <<<<>>>>
                          ELSE [j \in 1..Len(items) |-> items[j].name]
            /\ a_ret' = SelectAgent_process(s_out[1], config_cols).ret
            /\ a_out' = SelectAgent_process(s_out[1], config_cols).out
    /\ UNCHANGED a_index
    /\ UNCHANGED <<regVars, scriptVars>>

\* both agents have returned; the script agent takes its next input
PipelineReturn ==
    /\ ProcessReturn
    /\ a_pc' = "idle"
    /\ a_op' = "none"
    /\ a_value' = Unit
    /\ a_cols' = <<>>
    /\ a_names' = <<>>
    /\ a_out' = <<>>
    /\ a_ret' = NotReturned
    /\ UNCHANGED a_index

PipelineNext ==
    \/ ProcessEmpty /\ UNCHANGED <<normVars, classVars, algVars>>
    \/ ProcessStart /\ UNCHANGED <<normVars, classVars, algVars>>
    \/ PoolStep /\ UNCHANGED <<normVars, classVars, algVars>>
    \/ PoolErr /\ UNCHANGED <<normVars, classVars, algVars>>
    \/ BindErr /\ UNCHANGED <<normVars, classVars, algVars>>
    \/ BindOk /\ UNCHANGED <<normVars, classVars, algVars>>
    \/ FetchErr /\ UNCHANGED <<normVars, classVars, algVars>>
    \/ FetchOk /\ UNCHANGED <<normVars, classVars, algVars>>
    \/ ExecuteErr /\ UNCHANGED <<normVars, classVars, algVars>>
    \/ ExecuteOk /\ UNCHANGED <<normVars, classVars, algVars>>
    \/ SelectEmitted /\ UNCHANGED <<normVars, classVars>>
    \/ PipelineReturn /\ UNCHANGED <<normVars, classVars>>

\* the script agent with a SelectAgent on its `table` port
SpecPipeline == Init /\ [][PipelineNext]_vars

(***************************************************************************)
(* The claims.                                                             *)
(***************************************************************************)

\* C1: the registry retains one pool per distinct normalized URL: two registered
\* specifiers whose pools connect to the same URL share one pool.
C1_OnePoolPerUrl ==
    \A d1, d2 \in DOMAIN DB_MAP :
        pools[DB_MAP[d1]] = pools[DB_MAP[d2]] => DB_MAP[d1] = DB_MAP[d2]

C2_RaceResult ==
    \A c \in Callers :
        pc[c] = "done" /\ pool[c] # 0 =>
            /\ ret[c].kind = "Ok"
            /\ db[c] \in DOMAIN DB_MAP
            /\ ret[c].pool = DB_MAP[db[c]]
            /\ ret[c].pool \in 1..Len(pools)
            /\ pools[ret[c].pool] = normalize_db_url(db[c])

C2_EntryKept ==
    \A d \in DOMAIN DB_MAP : d \in DOMAIN DB_MAP' /\ DB_MAP'[d] = DB_MAP[d]

\* C2: callers racing on one unregistered key, whose connection attempts succeed,
\* each open a pool, each return Ok with a handle to the one pool the registry
\* retained for the key (a pool connected to the key's URL), and a registry entry
\* is never replaced.
C2_Race == []C2_RaceResult /\ [][C2_EntryKept]_vars

\* two callers raced on one key: both opened a pool, both returned the retained one
C2_Witness ==
    \E c1, c2 \in Callers :
        /\ c1 # c2
        /\ pc[c1] = "done" /\ pc[c2] = "done"
        /\ db[c1] = db[c2]
        /\ pool[c1] # 0 /\ pool[c2] # 0 /\ pool[c1] # pool[c2]
        /\ ret[c1].kind = "Ok" /\ ret[c1] = ret[c2]

\* C3: an acquire that starts after an acquire of the same specifier completed
\* successfully opens no pool and returns a handle to the pool that one returned.
C3_Reused ==
    \A c \in Callers :
        after[c] # 0 =>
            /\ pool[c] = 0
            /\ pc[c] \notin {"connect", "insert_lock", "insert"}
            /\ pc[c] = "done" => ret[c] = OkPool(after[c])

\* a later acquire has returned the pool of the first
C3_Witness ==
    \E c \in Callers : pc[c] = "done" /\ after[c] # 0 /\ ret[c] = OkPool(after[c])

\* the lock is held only inside the lookup and inside the insert
C4_LockHeldBriefly ==
    /\ \A c \in Callers : pc[c] \in {"connect", "insert_lock", "lookup_lock"} => lock # c
    /\ lock # 0 => pc[lock] \in {"lookup", "insert"}

\* a caller waiting for the lock, or holding it, can take a step or the holder can
C4_NoDeadlock ==
    \A c \in Callers :
        pc[c] \in {"lookup_lock", "lookup", "insert_lock", "insert"} =>
            \E h \in Callers : ENABLED LockStep(h)

C4_RegisteredCompletes ==
    \A c \in Callers :
        (pc[c] = "lookup_lock" /\ db[c] \in DOMAIN DB_MAP) ~> (pc[c] = "done")

\* C4: no caller holds the registry lock while its pool is being opened, so no
\* interleaving deadlocks and an acquire of a registered specifier completes
\* whatever becomes of the other callers' pending connection attempts.
C4_LockOnlyAroundMap ==
    /\ []C4_LockHeldBriefly
    /\ []C4_NoDeadlock
    /\ C4_RegisteredCompletes

\* an acquire of a registered specifier has completed while another caller's
\* connection attempt for a different specifier is pending
C4_Witness ==
    \E c1, c2 \in Callers :
        /\ pc[c1] = "connect"
        /\ pc[c2] = "done" /\ ret[c2].kind = "Ok" /\ pool[c2] = 0
        /\ db[c1] # db[c2]

\* C10: a specifier that starts with postgres: or postgresql: normalizes to
\* postgres:// followed by the remainder, `//` not doubled.
C10_PostgresScheme ==
    n_pc = "done" /\ (starts_with(n_db, S_postgres) \/ starts_with(n_db, S_postgresql)) =>
        LET rest == IF starts_with(n_db, S_postgres) THEN strip_prefix(n_db, S_postgres)
                    ELSE strip_prefix(n_db, S_postgresql)
            tail == IF starts_with(rest, S_slashes) THEN strip_prefix(rest, S_slashes)
                    ELSE rest
        IN  n_url = S_postgres \o S_slashes \o tail

\* position of the first character of s at or after i that is not whitespace
SkipBlank(s, i) ==
    CHOOSE j \in i..(Len(s) + 1) :
        /\ \A k \in i..(j - 1) : is_whitespace(s[k])
        /\ j = Len(s) + 1 \/ ~is_whitespace(s[j])

\* where the first token of s starts once the whitespace and the comments from i
\* on are stripped (Len(s) + 1: nothing is left); 0 when a comment does not end
RECURSIVE TokenStart(_, _)
TokenStart(s, i) ==
    LET j == SkipBlank(s, i)
        newlines == {k \in (j + 2)..Len(s) : s[k] = "\n"}
        closers == {k \in (j + 2)..(Len(s) - 1) : s[k] = "*" /\ s[k + 1] = "/"}
        first(S) == CHOOSE k \in S : \A m \in S : k <= m
    IN  IF j + 1 <= Len(s) /\ s[j] = "-" /\ s[j + 1] = "-" THEN
            IF newlines = {} THEN 0 ELSE TokenStart(s, first(newlines) + 1)
        ELSE IF j + 1 <= Len(s) /\ s[j] = "/" /\ s[j + 1] = "*" THEN
            IF closers = {} THEN 0 ELSE TokenStart(s, first(closers) + 2)
        ELSE j

\* the token of s that starts at i, lowercased
TokenAt(s, i) ==
    LET stop == CHOOSE j \in i..(Len(s) + 1) :
                    /\ \A k \in i..(j - 1) : ~is_whitespace(s[k])
                    /\ j = Len(s) + 1 \/ is_whitespace(s[j])
    IN  to_ascii_lowercase(SubSeq(s, i, stop - 1))

is_row_producing(s) ==
    LET i == TokenStart(s, 1)
    IN  i # 0 /\ i <= Len(s) /\ TokenAt(s, i) \in RowKeywords

\* C6: script_returns_rows is true exactly when, the leading whitespace, `--` line
\* comments and `/* ... */` block comments stripped, the first token lowercased is
\* one of select, with, pragma, show, describe, explain; false when no token is
\* left and when a leading comment does not end.
C6_Classifier ==
    c_pc = "done" => (c_returns <=> is_row_producing(c_script))

\* the decoded table a row-producing statement gives for the backend's rows
C5_CompleteTable(t) ==
    /\ has_array(t, "headers") /\ has_array(t, "rows")
    /\ script_returns_rows(s_script) => Len(get_array(t, "rows")) = Len(s_rows)
    /\ ~script_returns_rows(s_script) => Len(get_array(t, "rows")) = 1

\* C5: an invocation of the script agent emits one complete table or nothing;
\* a failure of the pool, of the binding, of execute, of fetch_all or of a raw
\* cell ends it with one IoError and nothing emitted, and the statement is sent
\* to the backend at most once.
C5_AllOrNothing ==
    /\ Len(s_out) <= 1
    /\ s_sent <= 1
    /\ s_out # <<>> => s_pc = "done" /\ s_ret = Ok /\ C5_CompleteTable(s_out[1])
    /\ s_pc = "done" =>
        /\ s_ret.kind \in {"Ok", "IoError"}
        /\ s_fail # "none" => s_ret.kind = "IoError" /\ s_out = <<>>
        /\ s_fail = "none" => /\ s_ret = Ok
                              /\ s_script = <<>> => s_out = <<>> /\ s_sent = 0
                              /\ s_script # <<>> => Len(s_out) = 1 /\ s_sent = 1

\* the second row's cell could not be read after the first row was decoded
C5_Witness ==
    /\ s_pc = "done" /\ s_fail = "raw"
    /\ s_ret.kind = "IoError" /\ s_out = <<>> /\ s_sent = 1
    /\ Len(s_rows) >= 2
    /\ sqlx_row_to_agent_value(s_rows[1]).ok
    /\ ~sqlx_row_to_agent_value(s_rows[2]).ok

C8_BothArraysRequired ==
    a_pc = "done" /\ (~has_array(a_value, "headers") \/ ~has_array(a_value, "rows")) =>
        a_ret.kind = "InvalidValue" /\ a_out = <<>>

\* C8, amended: Select fails with InvalidValue and emits nothing when the value
\* lacks the `headers` array or the `rows` array; Rows and Row when it lacks the
\* `rows` array.
C8_ReadArraysRequired ==
    a_pc = "done" /\ (~has_array(a_value, "rows")
                      \/ (a_op = "Select" /\ ~has_array(a_value, "headers"))) =>
        a_ret.kind = "InvalidValue" /\ a_out = <<>>

\* Rows on a value without `rows` has failed with InvalidValue
C8_Witness ==
    /\ a_pc = "done" /\ a_op = "Rows"
    /\ has_array(a_value, "headers") /\ ~has_array(a_value, "rows")
    /\ a_ret.kind = "InvalidValue" /\ a_out = <<>>

\* the first header equal to the name, 0 when there is none
C9_Resolve(headers, name) ==
    IF \E i \in 1..Len(headers) : headers[i] = String(name)
    THEN CHOOSE i \in 1..Len(headers) :
            /\ headers[i] = String(name)
            /\ \A k \in 1..(i - 1) : headers[k] # String(name)
    ELSE 0

\* C9: Select on a table: when every requested name resolves (to the first header
\* equal to it), the output has for every row, in order, the row's cells at the
\* positions of the requested names in request order (Unit where the row has no
\* such cell), as the bare row when one row results and as the array of rows
\* otherwise; when a name does not resolve, the result is InvalidValue naming
\* the first such name and nothing is emitted.
C9_Select ==
    a_pc = "done" /\ a_op = "Select" /\ has_array(a_value, "headers") =>
    LET headers == get_array(a_value, "headers")
        rows == get_array(a_value, "rows")
        at(j) == C9_Resolve(headers, a_names[j])
        unresolved == {j \in 1..Len(a_names) : at(j) = 0}
        \* the row Select makes of an input row
        selected(out, row) ==
            /\ is_array(out)
            /\ Len(out.a) = Len(a_names)
            /\ \A j \in 1..Len(a_names) :
                out.a[j] = IF at(j) <= Len(row.a) THEN row.a[at(j)] ELSE Unit
    IN  IF unresolved # {}
        THEN /\ a_ret.kind = "InvalidValue"
             /\ a_ret.msg = "Column not found"
             /\ \E j \in unresolved : /\ a_ret.arg = a_names[j]
                                      /\ \A k \in unresolved : j <= k
             /\ a_out = <<>>
        ELSE (/\ has_array(a_value, "rows")
              /\ \A r \in 1..Len(rows) : is_array(rows[r]))
             => /\ a_ret = Ok
                /\ Len(a_out) = 1
                /\ Len(rows) = 1 => selected(a_out[1], rows[1])
                /\ Len(rows) # 1 =>
                    /\ is_array(a_out[1])
                    /\ Len(a_out[1].a) = Len(rows)
                    /\ \A r \in 1..Len(rows) : selected(a_out[1].a[r], rows[r])

\* cols = " b\t,a" on headers [a, b] and one row: the bare row [cell of b, cell of a]
C9_Witness ==
    /\ a_pc = "done" /\ a_op = "Select" /\ a_ret = Ok
    /\ a_names = <<<<"b">>, <<"a">>>>
    /\ a_cols # <<"b", ",", "a">>
    /\ has_array(a_value, "headers")
    /\ get_array(a_value, "headers") = <<String(<<"a">>), String(<<"b">>)>>
    /\ has_array(a_value, "rows")
    /\ Len(get_array(a_value, "rows")) = 1
    /\ a_out = <<Array(<<Integer(12), Integer(11)>>)>>

\* C11: a row-producing script that returns no row gives a table whose headers
\* are empty, and Select on that table fails with InvalidValue "Column not found"
\* and emits nothing, whatever `cols` is, the empty text included.
C11_SelectOnEmptyResult ==
    (/\ a_pc = "done" /\ a_op = "Select"
     /\ s_pc = "done" /\ s_out # <<>>
     /\ script_returns_rows(s_script) /\ s_rows = <<>>)
    =>
    /\ a_value = s_out[1]
    /\ has_array(a_value, "headers") /\ get_array(a_value, "headers") = <<>>
    /\ has_array(a_value, "rows") /\ get_array(a_value, "rows") = <<>>
    /\ a_ret.kind = "InvalidValue"
    /\ a_ret.msg = "Column not found"
    /\ a_out = <<>>

\* Select with the empty `cols` has failed on the table of a statement without rows
C11_Witness ==
    /\ a_pc = "done" /\ a_op = "Select" /\ a_cols = <<>>
    /\ s_pc = "done" /\ s_out # <<>>
    /\ script_returns_rows(s_script) /\ s_rows = <<>>
    /\ a_ret = InvalidValue("Column not found", <<>>)
    /\ a_out = <<>>

====
